---------------------------- MODULE Spec2Model ----------------------------
(***************************************************************************)
(* A model of split_exon_realign_jobs.py (TOGA): one run of main(), from   *)
(* the parsed command line to the exit of the process.                      *)
(*                                                                         *)
(* Conventions.                                                            *)
(*  - A chain id is the string the orthology table holds, modelled as the  *)
(*    sequence of its decimal digits ("10" is <<1, 0>>); int(x) is the     *)
(*    operator IntOf.  A comma-joined string of ids is the sequence of the *)
(*    ids joined.                                                          *)
(*  - A Python dict is a sequence of <<key, value>> pairs with distinct    *)
(*    keys, in insertion order (Python 3.7+ dict order).                   *)
(*  - Gigabyte figures (the estimate gig, --mem_limit) are held in         *)
(*    hundredths of a gigabyte: 1.25 GB is 125.  Bucket ceilings are the   *)
(*    integers the command line gives, in whole gigabytes.                 *)
(*  - The inputs of the run are fixed by Init; the run is deterministic    *)
(*    afterwards, as the program is.                                       *)
(***************************************************************************)
EXTENDS Integers, Sequences, FiniteSets, TLC

VARIABLES
    \* ---- inputs: command line and files -------------------------------
    table,            \* rows of the orthology file (header line left out)
    fields,           \* --fields after split(",") and upper()
    only_o2o,         \* --o2o_only
    chains_limit,     \* --chains_limit
    mem_limit_arg,    \* --mem_limit, hundredths of a GB
    buckets_arg,      \* --buckets after split(","): a sequence of integers
    jobs_num,         \* --jobs_num
    skipped_genes,    \* --skipped_genes given (a path) or not
    cesar_exists,     \* os.path.isfile(args.cesar_binary)
    bed_data,         \* gene -> blockSizes (column 11 of the bed file)
    conv,             \* <<chain, gene>> -> [que_len, tar_len]: what the
                      \* coordinate converter answers for the pair
    \* ---- state of main() ----------------------------------------------
    pc,               \* position in main()
    exit_code,        \* -1 while running, the process exit status after
    batch,            \* genes_chains: dict gene -> selected chains
    chain_gene_field, \* dict <<chain, gene>> -> field
    skipped_1, skipped_2, skipped_3,
    mem_limit,        \* the limit main() uses, hundredths of a GB
    buckets,          \* dict ceiling -> list of jobs (define_buckets)
    filled_buckets,   \* what fill_buckets returns
    chain_to_genes,   \* dict chain -> list of genes
    regions,          \* gene_chain_grange: dict gene -> dict chain -> que_len
    chain_idx,        \* chains of chain_to_genes already projected
    gene_idx,         \* genes of batch already estimated
    num_states, rlength, memory,  \* locals of the loop over the genes
    all_jobs,         \* dict job -> gig
    bucket_jobs_num,  \* dict ceiling -> number of files
    \* ---- outputs --------------------------------------------------------
    job_files,        \* the files of jobs_dir, in the order written
    combined,         \* lines of the combined file, or NotWritten
    skipped_log,      \* lines of the skipped-genes file, or NotWritten
    paralogs_log      \* lines of the paralogs log, or NotWritten

inputs == <<table, fields, only_o2o, chains_limit, mem_limit_arg, buckets_arg,
            jobs_num, skipped_genes, cesar_exists, bed_data, conv>>
outputs == <<job_files, combined, skipped_log, paralogs_log>>
locals == <<num_states, rlength, memory>>
vars == <<table, fields, only_o2o, chains_limit, mem_limit_arg, buckets_arg,
          jobs_num, skipped_genes, cesar_exists, bed_data, conv,
          pc, exit_code, batch, chain_gene_field, skipped_1, skipped_2,
          skipped_3, mem_limit, buckets, filled_buckets, chain_to_genes, regions, chain_idx,
          gene_idx, num_states, rlength, memory, all_jobs, bucket_jobs_num,
          job_files, combined, skipped_log, paralogs_log>>

\* A file of the run: not written yet, or its lines.
NotWritten == [written |-> FALSE, lines |-> <<>>]
File(lines) == [written |-> TRUE, lines |-> lines]

-----------------------------------------------------------------------------
(* Sequences and Python dicts *)

Range(s) == {s[i] : i \in DOMAIN s}

RECURSIVE Flatten(_)
Flatten(ss) == IF ss = <<>> THEN <<>> ELSE Head(ss) \o Flatten(Tail(ss))

RECURSIVE SumSeq(_)
SumSeq(s) == IF s = <<>> THEN 0 ELSE Head(s) + SumSeq(Tail(s))

Max(S) == CHOOSE x \in S : \A y \in S : y <= x

Keys(d) == [i \in DOMAIN d |-> d[i][1]]
KeySet(d) == {d[i][1] : i \in DOMAIN d}
Has(d, k) == k \in KeySet(d)
Get(d, k) == d[CHOOSE i \in DOMAIN d : d[i][1] = k][2]
\* d[k] = v: a new key goes last, a key already present keeps its place.
Put(d, k, v) ==
    IF Has(d, k)
    THEN [i \in DOMAIN d |-> IF d[i][1] = k THEN <<k, v>> ELSE d[i]]
    ELSE Append(d, <<k, v>>)

RECURSIVE PutAll(_, _, _)
PutAll(d, ks, v) ==
    IF ks = <<>> THEN d ELSE PutAll(Put(d, Head(ks), v), Tail(ks), v)

-----------------------------------------------------------------------------
(* Chain ids *)

\* int(x) of a decimal string
RECURSIVE IntOf(_)
IntOf(s) ==
    IF s = <<>> THEN 0 ELSE IntOf(SubSeq(s, 1, Len(s) - 1)) * 10 + s[Len(s)]

\* The "0" of the orthology table: "no chains there".
Filler == <<0>>

\* String order of two decimal strings (Python's str <).
RECURSIVE StrLess(_, _)
StrLess(a, b) ==
    IF a = <<>> THEN b # <<>>
    ELSE IF b = <<>> THEN FALSE
    ELSE IF Head(a) # Head(b) THEN Head(a) < Head(b)
    ELSE StrLess(Tail(a), Tail(b))

\* Mutant of SortKeyLess: sorted(chains), the ids compared as strings.
SortKeyLess_as_strings(a, b) == StrLess(a, b)

\* The order sorted(chains, key=lambda x: int(x)) sorts by.
SortKeyLess(a, b) == IntOf(a) < IntOf(b)

\* sorted(): a stable insertion sort under SortKeyLess.
RECURSIVE InsertSorted(_, _)
InsertSorted(x, s) ==
    IF s = <<>> THEN <<x>>
    ELSE IF SortKeyLess(x, Head(s)) THEN <<x>> \o s
    ELSE <<Head(s)>> \o InsertSorted(x, Tail(s))

RECURSIVE Sorted(_)
Sorted(s) ==
    IF s = <<>> THEN <<>>
    ELSE InsertSorted(s[Len(s)], Sorted(SubSeq(s, 1, Len(s) - 1)))

-----------------------------------------------------------------------------
(* The inputs of a run *)

MaxGenes == 5        \* rows of the orthology table
MaxJobsNum == 3      \* --jobs_num
MaxBucket == 3       \* largest ceiling of --buckets, GB
MaxMemLimitGB == 3   \* largest --mem_limit, GB
MaxLimit == 3        \* largest --chains_limit
MaxFields == 2       \* entries of --fields

GeneIds == <<"g1", "g2", "g3", "g4", "g5", "g6", "g7", "g8">>

c1 == <<1>>
c5 == <<5>>
c9 == <<9>>
c10 == <<1, 0>>

\* Sequences without repetition over S, of length lo..hi.
RECURSIVE DistinctSeqs(_, _)
DistinctSeqs(S, n) ==
    IF n = 0 THEN {<<>>}
    ELSE {Append(s, x) : s \in DistinctSeqs(S, n - 1), x \in S} 

SeqsNoRep(S, lo, hi) ==
    UNION {{s \in DistinctSeqs(S, n) : Cardinality(Range(s)) = n} : n \in lo..hi}

\* The keys of chains in read_orthologs, and a field the table has no column
\* for.
FieldNames == {"ORTH", "PARA", "TRANS", "GGLOB"}
DefaultFields == <<"ORTH", "TRANS">>
FieldLists == SeqsNoRep(FieldNames, 0, MaxFields)

\* A projection the converter answers: lengths of the query and target
\* intervals (q_end - q_start, t_end - t_start).
Proj(q, t) == [que_len |-> q, tar_len |-> t]
ShortLocus == Proj(1000, 1000)
RelLongLocus == Proj(300000, 1000)
AbsLongLocus == Proj(521000, 20000)
\* Both differences exactly at their thresholds, and a query interval far
\* shorter than the target's.
BoundaryLocus == Proj(510000, 10000)
ShrunkLocus == Proj(1000, 600000)
ProjLoci == {ShortLocus, RelLongLocus, AbsLongLocus, BoundaryLocus, ShrunkLocus}

DefaultBlocks == <<300, 150>>
BlockLists == SeqsNoRep({1, 2, 3, 150, 300}, 1, 2) \cup {<<300, 300>>}

Row(g, orth, para, trans) ==
    [gene |-> g, ORTH |-> orth, PARA |-> para, TRANS |-> trans]

\* A column of the table: its ids, or the filler when it has none.
Col(ids) == IF ids = <<>> THEN <<Filler>> ELSE ids

RowIds(row) ==
    {x \in Range(row.ORTH) \cup Range(row.PARA) \cup Range(row.TRANS) :
        x # Filler}
TableGenes(t) == {t[i].gene : i \in DOMAIN t}
TablePairs(t) == UNION {{<<c, t[i].gene>> : c \in RowIds(t[i])} : i \in DOMAIN t}

\* Tables of n rows, row i about gene i and drawn from rows[i].
Tables(n, rows) ==
    {t \in [1..n -> UNION {rows[i] : i \in 1..n}] :
        \A i \in 1..n : t[i] \in rows[i]}

MemLimits == {100 * k : k \in 1..MaxMemLimitGB}
BucketLists == SeqsNoRep(0..MaxBucket, 1, 2)
Unbounded == <<0>>

\* No exit status yet (a status the process cannot return).
Running == 0 - 1

InitRun ==
    /\ pc = "read_orthologs"
    /\ exit_code = Running
    /\ batch = <<>>
    /\ chain_gene_field = <<>>
    /\ skipped_1 = <<>>
    /\ skipped_2 = <<>>
    /\ skipped_3 = <<>>
    /\ mem_limit = 0
    /\ buckets = <<>>
    /\ filled_buckets = <<>>
    /\ chain_to_genes = <<>>
    /\ regions = <<>>
    /\ chain_idx = 0
    /\ gene_idx = 0
    /\ num_states = 0
    /\ rlength = 0
    /\ memory = 0
    /\ all_jobs = <<>>
    /\ bucket_jobs_num = <<>>
    /\ job_files = <<>>
    /\ combined = NotWritten
    /\ skipped_log = NotWritten
    /\ paralogs_log = NotWritten

\* Runs that vary the orthology table, --fields and --o2o_only.
SelCols(g) == IF g = GeneIds[1] THEN {<<>>, <<c5>>, <<c5, c1>>} ELSE {<<>>, <<c5>>}
SelRows(g) ==
    {Row(g, Col(o), Col(p), Col(t)) :
        o \in SelCols(g), p \in SelCols(g), t \in SelCols(g)}
InitSelection ==
    /\ table \in Tables(2, [i \in 1..2 |-> SelRows(GeneIds[i])])
    /\ fields \in FieldLists
    /\ only_o2o \in BOOLEAN
    /\ chains_limit = MaxLimit
    /\ mem_limit_arg = 100 * MaxMemLimitGB
    /\ buckets_arg = Unbounded
    /\ jobs_num = 1
    /\ skipped_genes = TRUE
    /\ cesar_exists = TRUE
    /\ bed_data = [g \in TableGenes(table) |-> DefaultBlocks]
    /\ conv = [p \in TablePairs(table) |-> ShortLocus]

\* Runs that vary the chain lists and --chains_limit.
TruncCols == {<<>>, <<c9>>, <<c10, c9>>, <<c5, c1, c9>>}
TruncRows(g) ==
    {Row(g, Col(o), Col(<<>>), Col(t)) : o \in TruncCols, t \in TruncCols}
InitTruncation ==
    /\ table \in Tables(2, [i \in 1..2 |-> TruncRows(GeneIds[i])])
    /\ fields = DefaultFields
    /\ only_o2o = FALSE
    /\ chains_limit \in 0..MaxLimit
    /\ mem_limit_arg = 100 * MaxMemLimitGB
    /\ buckets_arg = Unbounded
    /\ jobs_num = 1
    /\ skipped_genes \in BOOLEAN
    /\ cesar_exists = TRUE
    /\ bed_data = [g \in TableGenes(table) |-> DefaultBlocks]
    /\ conv = [p \in TablePairs(table) |-> ShortLocus]

\* Runs that vary what the converter answers.
ProjRows(g) ==
    IF g = GeneIds[1]
    THEN {Row(g, Col(o), Col(p), Col(t)) :
             o \in {<<>>, <<c1>>}, p \in {<<>>, <<c5>>}, t \in {<<>>, <<c9>>}}
    ELSE {Row(g, <<c1>>, Col(<<>>), Col(<<>>)), Row(g, Col(<<>>), Col(<<>>), <<c9>>)}
InitProjection ==
    /\ table \in Tables(2, [i \in 1..2 |-> ProjRows(GeneIds[i])])
    /\ fields = DefaultFields
    /\ only_o2o = FALSE
    /\ chains_limit = MaxLimit
    /\ mem_limit_arg \in {200, 100 * (MaxMemLimitGB + 1)}
    /\ buckets_arg = Unbounded
    /\ jobs_num = 1
    /\ skipped_genes = TRUE
    /\ cesar_exists = TRUE
    /\ bed_data = [g \in TableGenes(table) |-> DefaultBlocks]
    /\ conv \in [TablePairs(table) -> ProjLoci]

\* Runs that vary the exon blocks, the query length, the memory ceilings and
\* whether the CESAR binary is there.
MemRows(g) == {Row(g, <<c1>>, Col(<<>>), Col(<<>>))}
InitMemory ==
    /\ table \in Tables(1, [i \in 1..1 |-> MemRows(GeneIds[i])])
    /\ fields = DefaultFields
    /\ only_o2o = FALSE
    /\ chains_limit = MaxLimit
    /\ mem_limit_arg \in MemLimits
    /\ buckets_arg \in {Unbounded} \cup SeqsNoRep(1..MaxBucket, 1, 1)
    /\ jobs_num = 1
    /\ skipped_genes = TRUE
    /\ cesar_exists \in BOOLEAN
    /\ bed_data \in [TableGenes(table) -> BlockLists]
    /\ conv \in [TablePairs(table) -> {ShortLocus, RelLongLocus}]

\* Runs that vary the number of tasks, their estimates, --buckets and
\* --jobs_num.
InitPartition ==
    /\ \E n \in 1..MaxGenes : table \in Tables(n, [i \in 1..n |-> MemRows(GeneIds[i])])
    /\ fields = DefaultFields
    /\ only_o2o = FALSE
    /\ chains_limit = MaxLimit
    /\ mem_limit_arg = 100 * MaxMemLimitGB
    /\ buckets_arg \in BucketLists
    /\ jobs_num \in 0..MaxJobsNum
    /\ skipped_genes = FALSE
    /\ cesar_exists = TRUE
    /\ bed_data = [g \in TableGenes(table) |-> DefaultBlocks]
    /\ conv \in [TablePairs(table) -> {ShortLocus, RelLongLocus}]

Init ==
    /\ \/ InitSelection
       \/ InitTruncation
       \/ InitProjection
       \/ InitMemory
       \/ InitPartition
    /\ InitRun

-----------------------------------------------------------------------------
(* die(), sys.exit() *)

\* die(msg, rc=0): no caller passes rc.
DieRc == 0
\* sys.exit(0) at the end of main().
SuccessRc == 0
\* The interpreter's exit status after an uncaught exception.
TracebackRc == 1

-----------------------------------------------------------------------------
(* read_orthologs *)

\* A reason: its text, and the numbers an f-string puts into it.
Reason(text, args) == [text |-> text, args |-> args]
NoChainsReason == Reason("No chains intersecting the gene", <<>>)
One2OneReason == Reason("Only one2one requested, this gene didn't pass", <<>>)
ParalogTag == "PARALOG"

SkipRecord(gene, chains, reason) ==
    [gene |-> gene, chains |-> chains, reason |-> reason]

\* [x for x in line_info[i].split(",") if x != "0"]
NoFiller(col) == SelectSeq(col, LAMBDA x : x # Filler)

RowChains(row) ==
    [ORTH |-> NoFiller(row.ORTH),
     PARA |-> NoFiller(row.PARA),
     TRANS |-> NoFiller(row.TRANS)]

AllChains(chains) == chains.ORTH \o chains.PARA \o chains.TRANS

\* Mutant of NotOne2One: a gene without orthologous chains passes.
NotOne2One_only_many(chains) == Len(chains.ORTH) > 1

NotOne2One(chains) == Len(chains.ORTH) = 0 \/ Len(chains.ORTH) > 1

\* chains.get(field); None is the empty list to the test that follows.
FieldChains(chains, field) ==
    IF field \in DOMAIN chains THEN chains[field] ELSE <<>>

\* chain_gene_field[(chain, gene)] = field for every chain of the list
TagAll(cgf, chs, gene, field) ==
    PutAll(cgf, [i \in DOMAIN chs |-> <<chs[i], gene>>], field)

\* for field in fields: ... over the fields left, fs
RECURSIVE SelectByFields(_, _, _, _, _)
SelectByFields(fs, chains, gene, selected, cgf) ==
    IF fs = <<>> THEN [selected |-> selected, chain_gene_field |-> cgf]
    ELSE LET field_chains == FieldChains(chains, Head(fs))
         IN  IF field_chains = <<>>
             THEN SelectByFields(Tail(fs), chains, gene, selected, cgf)
             ELSE SelectByFields(Tail(fs), chains, gene,
                                 selected \o field_chains,
                                 TagAll(cgf, field_chains, gene, Head(fs)))

\* One line of the file: st is (genes_chains, chain_gene_field, skipped).
ReadRow(st, row) ==
    LET gene == row.gene
        chains == RowChains(row)
        all_chains == AllChains(chains)
        sel == SelectByFields(fields, chains, gene, <<>>, st.chain_gene_field)
    IN  IF Len(all_chains) = 0
        THEN [st EXCEPT !.skipped =
                 Append(@, SkipRecord(gene, <<Filler>>, NoChainsReason))]
        ELSE IF only_o2o /\ NotOne2One(chains)
        THEN [st EXCEPT !.skipped =
                 Append(@, SkipRecord(gene, <<Filler>>, One2OneReason))]
        ELSE IF sel.selected = <<>>
        THEN [genes_chains |-> Put(st.genes_chains, gene, all_chains),
              chain_gene_field |-> TagAll(sel.chain_gene_field, all_chains,
                                          gene, ParalogTag),
              skipped |-> st.skipped]
        ELSE [genes_chains |-> Put(st.genes_chains, gene, sel.selected),
              chain_gene_field |-> sel.chain_gene_field,
              skipped |-> st.skipped]

RECURSIVE ReadRows(_, _)
ReadRows(st, rows) ==
    IF rows = <<>> THEN st ELSE ReadRows(ReadRow(st, Head(rows)), Tail(rows))

read_orthologs ==
    ReadRows([genes_chains |-> <<>>, chain_gene_field |-> <<>>,
              skipped |-> <<>>], table)

\* batch, chain_gene_field, skipped_1 = read_orthologs(...)
ReadOrthologs ==
    /\ pc = "read_orthologs"
    /\ Len(read_orthologs.genes_chains) # 0
    /\ batch' = read_orthologs.genes_chains
    /\ chain_gene_field' = read_orthologs.chain_gene_field
    /\ skipped_1' = read_orthologs.skipped
    /\ pc' = "define_buckets"
    /\ UNCHANGED <<inputs, locals, outputs, exit_code, skipped_2, skipped_3, mem_limit,
                   buckets, filled_buckets, chain_to_genes, regions,
                   chain_idx, gene_idx, all_jobs, bucket_jobs_num>>

\* die("Error! No gene:chains pairs selected! ...") inside read_orthologs
ReadOrthologsDies ==
    /\ pc = "read_orthologs"
    /\ Len(read_orthologs.genes_chains) = 0
    /\ pc' = "died"
    /\ exit_code' = DieRc
    /\ UNCHANGED <<inputs, locals, outputs, batch, chain_gene_field, skipped_1,
                   skipped_2, skipped_3, mem_limit, buckets, filled_buckets,
                   chain_to_genes, regions, chain_idx, gene_idx, all_jobs,
                   bucket_jobs_num>>

-----------------------------------------------------------------------------
(* define_buckets, read_bed, the check of the CESAR binary *)

RECURSIVE SortedInts(_)
SortedInts(S) ==
    IF S = {} THEN <<>>
    ELSE LET m == CHOOSE x \in S : \A y \in S : x <= y
         IN  <<m>> \o SortedInts(S \ {m})

\* sorted([int(x) for x in buckets.split(",") if x != ""])
BucketsVals(arg) == SortedInts(Range(arg))

DefineBuckets ==
    /\ pc = "define_buckets"
    /\ IF buckets_arg = Unbounded
       THEN /\ mem_limit' = mem_limit_arg
            /\ buckets' = <<<<0, <<>>>>>>
       ELSE LET buckets_vals == BucketsVals(buckets_arg)
            IN  /\ mem_limit' = 100 * buckets_vals[Len(buckets_vals)]
                /\ buckets' = [i \in DOMAIN buckets_vals |->
                                  <<buckets_vals[i], <<>>>>]
    /\ pc' = "check_binary"
    /\ UNCHANGED <<inputs, locals, outputs, exit_code, batch, chain_gene_field,
                   skipped_1, skipped_2, skipped_3, filled_buckets,
                   chain_to_genes, regions, chain_idx, gene_idx, all_jobs,
                   bucket_jobs_num>>

CheckBinary ==
    /\ pc = "check_binary"
    /\ cesar_exists
    /\ pc' = "truncate"
    /\ UNCHANGED <<inputs, locals, outputs, exit_code, batch, chain_gene_field,
                   skipped_1, skipped_2, skipped_3, mem_limit, buckets,
                   filled_buckets, chain_to_genes, regions, chain_idx,
                   gene_idx, all_jobs, bucket_jobs_num>>

\* die("Error! Cannot find cesar executable ...")
CheckBinaryDies ==
    /\ pc = "check_binary"
    /\ ~cesar_exists
    /\ pc' = "died"
    /\ exit_code' = DieRc
    /\ UNCHANGED <<inputs, locals, outputs, batch, chain_gene_field, skipped_1,
                   skipped_2, skipped_3, mem_limit, buckets, filled_buckets,
                   chain_to_genes, regions, chain_idx, gene_idx, all_jobs,
                   bucket_jobs_num>>

-----------------------------------------------------------------------------
(* precompute_regions *)

LONG_LOCI_FIELDS == {"GGLOB", "TRANS"}
REL_LENGTH_THR == 50
ABS_LENGTH_TRH == 500000

NoOrthReason == Reason("no orthologous chains", <<>>)
ChainLimitReason(limit) == Reason("number of chains limit exceeded", <<limit>>)
LongLocusReason == Reason("too long query locus", <<>>)

\* s[:n] and s[n:] for n >= 0
Take(s, n) == SubSeq(s, 1, IF n < Len(s) THEN n ELSE Len(s))
Drop(s, n) == SubSeq(s, n + 1, Len(s))

\* chains_ = sorted(chains, key=lambda x: int(x)); chains_ = chains_[:limit]
KeptChains(chains, limit) == Take(Sorted(chains), limit)

\* ",".join(chains_[limit:]), chains_ being the list already cut
LimitRecordChains(chains_, limit) == Drop(chains_, limit)

\* chain_to_genes[chain].append(gene) for every chain of chains_
RECURSIVE AppendGene(_, _, _)
AppendGene(ctg, chains_, gene) ==
    IF chains_ = <<>> THEN ctg
    ELSE LET chain == Head(chains_)
             genes == IF Has(ctg, chain) THEN Get(ctg, chain) ELSE <<>>
         IN  AppendGene(Put(ctg, chain, Append(genes, gene)), Tail(chains_),
                        gene)

\* One turn of "for gene, chains in batch.items()": st is
\* (chain_to_genes, skipped).
TruncateGene(st, gene, chains, limit) ==
    IF Len(chains) = 0
    THEN [st EXCEPT !.skipped = Append(@, SkipRecord(gene, chains, NoOrthReason))]
    ELSE LET chains_ == KeptChains(chains, limit)
             skipped == IF Len(chains) > limit
                        THEN Append(st.skipped,
                                    SkipRecord(gene,
                                               LimitRecordChains(chains_, limit),
                                               ChainLimitReason(limit)))
                        ELSE st.skipped
         IN  [chain_to_genes |-> AppendGene(st.chain_to_genes, chains_, gene),
              skipped |-> skipped]

RECURSIVE TruncateAll(_, _, _)
TruncateAll(st, items, limit) ==
    IF items = <<>> THEN st
    ELSE TruncateAll(TruncateGene(st, Head(items)[1], Head(items)[2], limit),
                     Tail(items), limit)

\* The first loop of precompute_regions.
Truncate ==
    /\ pc = "truncate"
    /\ LET st == TruncateAll([chain_to_genes |-> <<>>, skipped |-> <<>>],
                             batch, chains_limit)
       IN  /\ chain_to_genes' = st.chain_to_genes
           /\ skipped_2' = st.skipped
           /\ pc' = IF st.chain_to_genes = <<>> THEN "estimate" ELSE "project"
    /\ chain_idx' = 0
    /\ UNCHANGED <<inputs, locals, outputs, exit_code, batch, chain_gene_field,
                   skipped_1, skipped_3, mem_limit, buckets, filled_buckets,
                   regions, gene_idx, all_jobs, bucket_jobs_num>>

Abs(x) == IF x < 0 THEN -x ELSE x

\* len_delta / tar_len > REL_LENGTH_THR, tar_len > 0
HighRelLen(len_delta, tar_len) == len_delta > REL_LENGTH_THR * tar_len
HighAbsLen(len_delta) == len_delta > ABS_LENGTH_TRH

\* chain_gene_field.get((chain_id, gene)) in LONG_LOCI_FIELDS
LongLociField(cgf, chain_id, gene) ==
    /\ Has(cgf, <<chain_id, gene>>)
    /\ Get(cgf, <<chain_id, gene>>) \in LONG_LOCI_FIELDS

\* Mutant of TooLong: the category of the pair is not looked at.
TooLong_any_field(len_delta, tar_len, long_loci_field) ==
    HighRelLen(len_delta, tar_len) \/ HighAbsLen(len_delta)

\* The candidate is discarded (line 293).
TooLong(len_delta, tar_len, long_loci_field) ==
    (HighRelLen(len_delta, tar_len) \/ HighAbsLen(len_delta)) /\ long_loci_field

\* Mutant of ProjectLine: a too long candidate is dropped without a record.
ProjectLine_silent(st, chain_id, gene) ==
    LET que_len == conv[<<chain_id, gene>>].que_len
        tar_len == conv[<<chain_id, gene>>].tar_len
        len_delta == Abs(tar_len - que_len)
        of_gene == IF Has(st.regions, gene) THEN Get(st.regions, gene) ELSE <<>>
    IN  IF TooLong(len_delta, tar_len,
                   LongLociField(chain_gene_field, chain_id, gene))
        THEN st
        ELSE [st EXCEPT !.regions =
                 Put(@, gene, Put(of_gene, chain_id, que_len))]

\* One line of the converter's answer: st is (regions, skipped).
ProjectLine(st, chain_id, gene) ==
    LET que_len == conv[<<chain_id, gene>>].que_len
        tar_len == conv[<<chain_id, gene>>].tar_len
        len_delta == Abs(tar_len - que_len)
        of_gene == IF Has(st.regions, gene) THEN Get(st.regions, gene) ELSE <<>>
    IN  IF TooLong(len_delta, tar_len,
                   LongLociField(chain_gene_field, chain_id, gene))
        THEN [st EXCEPT !.skipped =
                 Append(@, SkipRecord(gene, <<chain_id>>, LongLocusReason))]
        ELSE [st EXCEPT !.regions =
                 Put(@, gene, Put(of_gene, chain_id, que_len))]

RECURSIVE ProjectLines(_, _, _)
ProjectLines(st, chain_id, genes) ==
    IF genes = <<>> THEN st
    ELSE ProjectLines(ProjectLine(st, chain_id, Head(genes)), chain_id,
                      Tail(genes))

\* One turn of "for chain_id, genes in chain_to_genes.items()": one call of
\* the converter, and the lines it answers.
ProjectChain ==
    /\ pc = "project"
    /\ chain_idx < Len(chain_to_genes)
    /\ LET item == chain_to_genes[chain_idx + 1]
           st == ProjectLines([regions |-> regions, skipped |-> skipped_2],
                              item[1], item[2])
       IN  /\ regions' = st.regions
           /\ skipped_2' = st.skipped
    /\ chain_idx' = chain_idx + 1
    /\ pc' = IF chain_idx + 1 = Len(chain_to_genes) THEN "estimate" ELSE "project"
    /\ UNCHANGED <<inputs, locals, outputs, exit_code, batch, chain_gene_field,
                   skipped_1, skipped_3, mem_limit, buckets, filled_buckets,
                   chain_to_genes, gene_idx, all_jobs, bucket_jobs_num>>

-----------------------------------------------------------------------------
(* main(): the memory estimate of each gene *)

Extra == 100000
Giga == 1000000000

\* Mutant of NumStates: the codons of a block rounded up.
RECURSIVE NumStates_codons_up(_)
NumStates_codons_up(block_sizes) ==
    IF block_sizes = <<>> THEN 0
    ELSE LET num_codons == (Head(block_sizes) + 2) \div 3
         IN  (6 + 6 * num_codons + 1 + 2 + 2 + 22 + 6)
             + NumStates_codons_up(Tail(block_sizes))

\* num_states += 6 + 6 * num_codons + 1 + 2 + 2 + 22 + 6 over the blocks
RECURSIVE NumStates(_)
NumStates(block_sizes) ==
    IF block_sizes = <<>> THEN 0
    ELSE LET num_codons == Head(block_sizes) \div 3
         IN  (6 + 6 * num_codons + 1 + 2 + 2 + 22 + 6)
             + NumStates(Tail(block_sizes))

\* rlength += block_size over the blocks
RLength(block_sizes) == SumSeq(block_sizes)

Memory(states, rlen, qlength_max) ==
    (states * 4 * 8)
    + (states * qlength_max * 4)
    + (states * 304)
    + (2 * qlength_max + rlen) * 8
    + (qlength_max + rlen) * 2 * 1
    + Extra

\* math.ceil(a / b) for a >= 0, b > 0
CeilDiv(a, b) == (a \div b) + (IF a % b = 0 THEN 0 ELSE 1)

\* math.ceil(memory / 1000000000) + 0.25, in hundredths of a GB
Gig(bytes) == CeilDiv(bytes, Giga) * 100 + 25

\* max(gene_chains_data.values())
QLengthMax(gene_chains_data) ==
    Max({gene_chains_data[i][2] : i \in DOMAIN gene_chains_data})

\* memory, for the gene the loop is at
GeneMemory(gene) ==
    Memory(NumStates(bed_data[gene]), RLength(bed_data[gene]),
           QLengthMax(Get(regions, gene)))

\* The estimate of a gene with surviving chains.
GeneGig(gene) == Gig(GeneMemory(gene))

\* gig > mem_limit
OverLimit(gig, lim) == gig > lim

\* The command line of a task: what WRAPPER_TEMPLATE.format() fills in from
\* the gene (the other arguments are the same for every task of a run).
Job(gene, chains, gig) == [gene |-> gene, chains |-> chains, gig |-> gig]

MemoryReason(lim, gig) == Reason("memory limit exceeded", <<lim, gig>>)

CurrentGene == Keys(batch)[gene_idx + 1]
HasRegions(gene) == Has(regions, gene) /\ Get(regions, gene) # <<>>
AfterGene == IF gene_idx + 1 = Len(batch) THEN "fill_buckets" ELSE "estimate"

\* if not gene_chains_data: continue
EstimateNoRegions ==
    /\ pc = "estimate"
    /\ ~HasRegions(CurrentGene)
    /\ num_states' = NumStates(bed_data[CurrentGene])
    /\ rlength' = RLength(bed_data[CurrentGene])
    /\ gene_idx' = gene_idx + 1
    /\ pc' = AfterGene
    /\ UNCHANGED <<inputs, outputs, memory, exit_code, batch,
                   chain_gene_field, skipped_1, skipped_2, skipped_3,
                   mem_limit, buckets, filled_buckets, chain_to_genes,
                   regions, chain_idx, all_jobs, bucket_jobs_num>>

\* if gig > mem_limit: skipped_3.append(...); continue
EstimateOverLimit ==
    /\ pc = "estimate"
    /\ HasRegions(CurrentGene)
    /\ OverLimit(GeneGig(CurrentGene), mem_limit)
    /\ num_states' = NumStates(bed_data[CurrentGene])
    /\ rlength' = RLength(bed_data[CurrentGene])
    /\ memory' = GeneMemory(CurrentGene)
    /\ skipped_3' = Append(skipped_3,
                           SkipRecord(CurrentGene,
                                      Keys(Get(regions, CurrentGene)),
                                      MemoryReason(mem_limit,
                                                   GeneGig(CurrentGene))))
    /\ gene_idx' = gene_idx + 1
    /\ pc' = AfterGene
    /\ UNCHANGED <<inputs, outputs, exit_code, batch, chain_gene_field,
                   skipped_1, skipped_2, mem_limit, buckets, filled_buckets,
                   chain_to_genes, regions, chain_idx, all_jobs,
                   bucket_jobs_num>>

\* all_jobs[job] = gig
EstimateJob ==
    /\ pc = "estimate"
    /\ HasRegions(CurrentGene)
    /\ ~OverLimit(GeneGig(CurrentGene), mem_limit)
    /\ num_states' = NumStates(bed_data[CurrentGene])
    /\ rlength' = RLength(bed_data[CurrentGene])
    /\ memory' = GeneMemory(CurrentGene)
    /\ all_jobs' = Put(all_jobs,
                       Job(CurrentGene, Keys(Get(regions, CurrentGene)),
                           GeneGig(CurrentGene)),
                       GeneGig(CurrentGene))
    /\ gene_idx' = gene_idx + 1
    /\ pc' = AfterGene
    /\ UNCHANGED <<inputs, outputs, exit_code, batch, chain_gene_field,
                   skipped_1, skipped_2, skipped_3, mem_limit, buckets,
                   filled_buckets, chain_to_genes, regions, chain_idx,
                   bucket_jobs_num>>

-----------------------------------------------------------------------------
(* fill_buckets and the number of files of each bucket *)

\* Mutant of PrevLim: prev_lim = memlim is forgotten in the loop.
PrevLim_never_advanced(memlims, i) == 0

\* prev_lim when the loop reaches memlims[i]
PrevLim(memlims, i) == IF i = 1 THEN 0 ELSE memlims[i - 1]

\* prev_lim < jobmem <= memlim, the ceilings in GB
InBucket(jobmem, prev_lim, memlim) ==
    100 * prev_lim < jobmem /\ jobmem <= 100 * memlim

\* [job for job, jobmem in all_jobs.items() if prev_lim < jobmem <= memlim]
BucketJobs(jobs, prev_lim, memlim) ==
    Keys(SelectSeq(jobs, LAMBDA it : InBucket(it[2], prev_lim, memlim)))

fill_buckets(bk, jobs) ==
    IF Has(bk, 0) THEN Put(bk, 0, Keys(jobs))
    ELSE LET memlims == Keys(bk)
             filled == [i \in DOMAIN memlims |->
                           <<memlims[i],
                             BucketJobs(jobs, PrevLim(memlims, i), memlims[i])>>]
         IN  SelectSeq(filled, LAMBDA it : Len(it[2]) > 0)

\* sum([k * len(v) for k, v in filled_buckets.items()])
PropSum(filled) == SumSeq([i \in DOMAIN filled |-> filled[i][1] * Len(filled[i][2])])

\* math.ceil(args.jobs_num * ((k * len(v)) / prop_sum))
BucketFiles(num, k, n, prop_sum) == CeilDiv(num * (k * n), prop_sum)

\* bucket_jobs_num, from buckets_prop
BucketJobsNum(filled, num) ==
    IF Has(filled, 0) THEN <<<<0, num>>>>
    ELSE [i \in DOMAIN filled |->
             <<filled[i][1],
               BucketFiles(num, filled[i][1], Len(filled[i][2]), PropSum(filled))>>]

FillBuckets ==
    /\ pc = "fill_buckets"
    /\ filled_buckets' = fill_buckets(buckets, all_jobs)
    /\ bucket_jobs_num' = BucketJobsNum(fill_buckets(buckets, all_jobs), jobs_num)
    /\ pc' = "save_jobs"
    /\ UNCHANGED <<inputs, locals, outputs, exit_code, batch, chain_gene_field,
                   skipped_1, skipped_2, skipped_3, mem_limit, buckets,
                   chain_to_genes, regions, chain_idx, gene_idx, all_jobs>>

-----------------------------------------------------------------------------
(* save_jobs *)

\* modules.common.parts(lst, n): the list cut into chunks of n, the
\* remainder in the final chunk.
RECURSIVE Parts(_, _)
Parts(lst, n) ==
    IF lst = <<>> THEN <<>>
    ELSE <<Take(lst, n)>> \o Parts(Drop(lst, n), n)

\* num_of_files = len(jobs) if num_of_files >= len(jobs) else num_of_files
NumOfFiles(num_of_files, njobs) ==
    IF num_of_files >= njobs THEN njobs ELSE num_of_files

\* Mutant of SizeOfFile: the size rounded up when there is a remainder (the
\* line save_jobs has commented out).
SizeOfFile_round_up(njobs, num_of_files) ==
    IF njobs % num_of_files # 0
    THEN (njobs \div num_of_files) + 1
    ELSE njobs \div num_of_files

\* size_of_file = len(jobs) // num_of_files
SizeOfFile(njobs, num_of_files) == njobs \div num_of_files

JobFile(file_num, bucket_id, part) ==
    [name |-> <<file_num, bucket_id>>, bucket |-> bucket_id, lines |-> part]

\* The files of one bucket, numbered from file_num + 1.
BucketFileList(file_num, bucket_id, jobs_split) ==
    [i \in DOMAIN jobs_split |-> JobFile(file_num + i, bucket_id, jobs_split[i])]

NoError == "none"

\* One turn of "for bucket_id, jobs in filled_buckets.items()": st is
\* (files written, error raised).
SaveBucket(st, bucket_id, jobs, bjn) ==
    IF st.error # NoError THEN st
    ELSE IF ~Has(bjn, bucket_id) THEN [st EXCEPT !.error = "KeyError"]
    ELSE LET num_of_files == NumOfFiles(Get(bjn, bucket_id), Len(jobs))
         IN  IF num_of_files = 0
             THEN [st EXCEPT !.error = "ZeroDivisionError"]
             ELSE [st EXCEPT !.files =
                      @ \o BucketFileList(Len(@), bucket_id,
                                          Parts(jobs, SizeOfFile(Len(jobs),
                                                                 num_of_files)))]

RECURSIVE SaveBuckets(_, _, _)
SaveBuckets(st, filled, bjn) ==
    IF filled = <<>> THEN st
    ELSE SaveBuckets(SaveBucket(st, Head(filled)[1], Head(filled)[2], bjn),
                     Tail(filled), bjn)

save_jobs(filled, bjn) ==
    SaveBuckets([files |-> <<>>, error |-> NoError], filled, bjn)

SaveJobs ==
    /\ pc = "save_jobs"
    /\ save_jobs(filled_buckets, bucket_jobs_num).error = NoError
    /\ job_files' = save_jobs(filled_buckets, bucket_jobs_num).files
    /\ pc' = "write_outputs"
    /\ UNCHANGED <<inputs, locals, combined, skipped_log, paralogs_log, exit_code,
                   batch, chain_gene_field, skipped_1, skipped_2, skipped_3,
                   mem_limit, buckets, filled_buckets, chain_to_genes, regions,
                   chain_idx, gene_idx, all_jobs, bucket_jobs_num>>

\* save_jobs raises (ZeroDivisionError at line 328, KeyError at line 325):
\* nothing catches it, the files written so far stay.
SaveJobsRaises ==
    /\ pc = "save_jobs"
    /\ save_jobs(filled_buckets, bucket_jobs_num).error # NoError
    /\ job_files' = save_jobs(filled_buckets, bucket_jobs_num).files
    /\ pc' = "crashed"
    /\ exit_code' = TracebackRc
    /\ UNCHANGED <<inputs, locals, combined, skipped_log, paralogs_log, batch,
                   chain_gene_field, skipped_1, skipped_2, skipped_3,
                   mem_limit, buckets, filled_buckets, chain_to_genes, regions,
                   chain_idx, gene_idx, all_jobs, bucket_jobs_num>>

-----------------------------------------------------------------------------
(* main(): the combined file and the logs *)

\* One line per job file: cesar_runner.py <file> <results>/<file>.bdb
CombinedLines(files) == [i \in DOMAIN files |-> files[i].name]

\* Mutant of ParalogLines: the test of the tag is left out.
ParalogLines_untested(cgf) == [i \in DOMAIN cgf |-> <<cgf[i][1][2], cgf[i][1][1]>>]

\* One "gene.chain" line per key of chain_gene_field tagged PARALOG
ParalogLines(cgf) ==
    LET tagged == SelectSeq(cgf, LAMBDA it : it[2] = ParalogTag)
    IN  [i \in DOMAIN tagged |-> <<tagged[i][1][2], tagged[i][1][1]>>]

WriteOutputs ==
    /\ pc = "write_outputs"
    /\ combined' = File(CombinedLines(job_files))
    /\ skipped_log' = IF skipped_genes
                      THEN File(skipped_1 \o skipped_2 \o skipped_3)
                      ELSE skipped_log
    /\ paralogs_log' = File(ParalogLines(chain_gene_field))
    /\ pc' = "done"
    /\ exit_code' = SuccessRc
    /\ UNCHANGED <<inputs, locals, job_files, batch, chain_gene_field, skipped_1,
                   skipped_2, skipped_3, mem_limit, buckets, filled_buckets,
                   chain_to_genes, regions, chain_idx, gene_idx, all_jobs,
                   bucket_jobs_num>>

-----------------------------------------------------------------------------

Next ==
    \/ ReadOrthologs
    \/ ReadOrthologsDies
    \/ DefineBuckets
    \/ CheckBinary
    \/ CheckBinaryDies
    \/ Truncate
    \/ ProjectChain
    \/ EstimateNoRegions
    \/ EstimateOverLimit
    \/ EstimateJob
    \/ FillBuckets
    \/ SaveJobs
    \/ SaveJobsRaises
    \/ WriteOutputs

Spec == Init /\ [][Next]_vars

-----------------------------------------------------------------------------
(* Properties *)

\* fill_buckets has returned / save_jobs has returned / main() has reached
\* its end.
Filled == pc \in {"save_jobs", "write_outputs", "done", "crashed"}
Saved == pc \in {"write_outputs", "done"}
Completed == pc = "done"

\* The places (file, line) of the job files that hold job j.
PlacesOf(j) ==
    UNION {{<<f, l>> : l \in {y \in DOMAIN job_files[f].lines :
                                  job_files[f].lines[y] = j}} :
              f \in DOMAIN job_files}

\* The places (bucket, position) of the filled buckets that hold job j.
BucketPlacesOf(j) ==
    UNION {{<<b, l>> : l \in {y \in DOMAIN filled_buckets[b][2] :
                                  filled_buckets[b][2][y] = j}} :
              b \in DOMAIN filled_buckets}

AllSkipped == skipped_1 \o skipped_2 \o skipped_3

\* C1: once fill_buckets has returned every task of all_jobs is in exactly
\* one bucket, and once save_jobs has returned its command line is in exactly
\* one job file, at one line: no task twice, none missing.
C1_OneBucketOneFile ==
    /\ Filled => \A j \in KeySet(all_jobs) : Cardinality(BucketPlacesOf(j)) = 1
    /\ Saved => \A j \in KeySet(all_jobs) : Cardinality(PlacesOf(j)) = 1

C1_Witness ==
    /\ Completed
    /\ Len(all_jobs) >= 3
    /\ Len(filled_buckets) >= 2
    /\ Len(job_files) >= 3

\* C2: in a run that reaches its end every gene row of the table has its task
\* in a job file or a skip record naming it in skipped_1 + skipped_2 +
\* skipped_3.
C2_NoSilentExclusion ==
    Saved =>
        \A i \in DOMAIN table :
            \/ \E j \in KeySet(all_jobs) :
                    j.gene = table[i].gene /\ PlacesOf(j) # {}
            \/ \E k \in DOMAIN AllSkipped : AllSkipped[k].gene = table[i].gene

\* A gene of the batch all of whose candidates precompute_regions removed,
\* in a run that reached its end and emitted another gene.
C2_Witness ==
    /\ Completed
    /\ \E g \in KeySet(batch) : Get(batch, g) # <<>> /\ ~HasRegions(g)
    /\ job_files # <<>>

\* C3 (as claimed): a gene whose estimate exceeds --mem_limit is never a
\* task: every task's estimate is at most --mem_limit.
C3_Original ==
    \A j \in KeySet(all_jobs) : j.gig <= mem_limit_arg

\* The closed form of the estimate, as the claim writes it.
C4_TotalStates(blocks) ==
    SumSeq([i \in DOMAIN blocks |->
               6 + 6 * (blocks[i] \div 3) + 1 + 2 + 2 + 22 + 6])
C4_MemoryBytes(blocks, q) ==
    C4_TotalStates(blocks) * 32 + C4_TotalStates(blocks) * q * 4
    + C4_TotalStates(blocks) * 304 + (2 * q + SumSeq(blocks)) * 8
    + (q + SumSeq(blocks)) * 2 + 100000
RECURSIVE C4_CeilGB(_)
C4_CeilGB(bytes) == IF bytes <= 0 THEN 0 ELSE 1 + C4_CeilGB(bytes - Giga)
C4_Estimate(blocks, q) == 100 * C4_CeilGB(C4_MemoryBytes(blocks, q)) + 25
C4_MaxQuery(gene) ==
    LET lens == {conv[<<c, gene>>].que_len : c \in KeySet(Get(regions, gene))}
    IN  CHOOSE q \in lens : \A r \in lens : r <= q

\* The gene the loop over the genes handled last.
LastGene == Keys(batch)[gene_idx]

\* The estimates main() recorded for a gene: with its task, or in its
\* memory-limit record.
C4_Recorded(gene) ==
    {j.gig : j \in {x \in KeySet(all_jobs) : x.gene = gene}}
    \cup {skipped_3[k].reason.args[2] :
             k \in {x \in DOMAIN skipped_3 : skipped_3[x].gene = gene}}

\* C4: for every gene the loop has handled, num_states and rlength are the
\* sums of the claim, memory is memoryBytes of the claim, and the estimate
\* of the task (or of the memory-limit record) is ceil(memoryBytes / 10^9) +
\* 0.25 GB; for blocks [300, 150] and q = 1000 that is 978 states, 4363108
\* bytes and 1.25 GB.
C4_MemoryFormula ==
    /\ gene_idx > 0 =>
           /\ num_states = C4_TotalStates(bed_data[LastGene])
           /\ rlength = SumSeq(bed_data[LastGene])
           /\ HasRegions(LastGene) =>
                  memory = C4_MemoryBytes(bed_data[LastGene],
                                          C4_MaxQuery(LastGene))
           /\ (/\ HasRegions(LastGene)
               /\ bed_data[LastGene] = <<300, 150>>
               /\ C4_MaxQuery(LastGene) = 1000)
                  => /\ num_states = 978
                     /\ memory = 4363108
                     /\ C4_Recorded(LastGene) = {125}
    /\ \A j \in KeySet(all_jobs) :
           j.gig = C4_Estimate(bed_data[j.gene], C4_MaxQuery(j.gene))
    /\ \A k \in DOMAIN skipped_3 :
           skipped_3[k].reason.args[2] =
               C4_Estimate(bed_data[skipped_3[k].gene],
                           C4_MaxQuery(skipped_3[k].gene))

\* The gene of blocks [300, 150] and q = 1000 just estimated, at 1.25 GB.
C4_Witness ==
    /\ gene_idx > 0
    /\ HasRegions(LastGene)
    /\ bed_data[LastGene] = <<300, 150>>
    /\ C4_MaxQuery(LastGene) = 1000
    /\ memory = 4363108
    /\ C4_Recorded(LastGene) = {125}

\* The files save_jobs wrote for a bucket, in the order written.
C5_Files(bucket_id) == SelectSeq(job_files, LAMBDA f : f.bucket = bucket_id)

\* ceil(totalRequestedFiles * weight / sumOfWeights), weight = ceiling *
\* taskCount; all the requested files for the unbounded bucket.
C5_Weight(i) == filled_buckets[i][1] * Len(filled_buckets[i][2])
C5_Allocated(i) ==
    IF filled_buckets[i][1] = 0 THEN jobs_num
    ELSE LET total == SumSeq([x \in DOMAIN filled_buckets |-> C5_Weight(x)])
         IN  CHOOSE m \in 0..jobs_num :
                 /\ m * total >= jobs_num * C5_Weight(i)
                 /\ (m - 1) * total < jobs_num * C5_Weight(i)

C5_Lines(files) == Flatten([x \in DOMAIN files |-> files[x].lines])

C6_Cat(row, f) ==
    IF f = "ORTH" THEN Range(row.ORTH) \ {Filler}
    ELSE IF f = "PARA" THEN Range(row.PARA) \ {Filler}
    ELSE IF f = "TRANS" THEN Range(row.TRANS) \ {Filler}
    ELSE {}
C6_All(row) == C6_Cat(row, "ORTH") \cup C6_Cat(row, "PARA") \cup C6_Cat(row, "TRANS")

\* The requested priority categories of the row are all empty and another
\* category is not.
C6_FallbackRow(row) ==
    /\ \A i \in DOMAIN fields : C6_Cat(row, fields[i]) = {}
    /\ C6_All(row) # {}

\* The row passes the one-to-one filter.
C6_PassesO2O(row) ==
    ~only_o2o \/ Cardinality({i \in DOMAIN row.ORTH : row.ORTH[i] # Filler}) = 1

C6_RowOf(gene) == table[CHOOSE i \in DOMAIN table : table[i].gene = gene]

C6_Selected(row) ==
    /\ Has(batch, row.gene)
    /\ Range(Get(batch, row.gene)) = C6_All(row)
    /\ \A c \in C6_All(row) :
           /\ Has(chain_gene_field, <<c, row.gene>>)
           /\ Get(chain_gene_field, <<c, row.gene>>) = ParalogTag

C6_Tagged == {k \in KeySet(chain_gene_field) : Get(chain_gene_field, k) = ParalogTag}

\* The log holds exactly the tagged pairs, one line each.
C6_Log ==
    /\ paralogs_log.written
    /\ Range(paralogs_log.lines) = {<<k[2], k[1]>> : k \in C6_Tagged}
    /\ Len(paralogs_log.lines) = Cardinality(C6_Tagged)

\* C6 (as claimed): every gene whose priority categories are empty and that
\* has a chain elsewhere is selected with all its chains, all tagged as
\* fallback; the log holds exactly the tagged pairs.
C6_Original ==
    /\ pc # "read_orthologs" =>
           \A i \in DOMAIN table : C6_FallbackRow(table[i]) => C6_Selected(table[i])
    /\ Completed =>
           /\ C6_Log
           /\ \A k \in C6_Tagged : C6_FallbackRow(C6_RowOf(k[2]))

\* C6 (amended): the same, for the genes the one-to-one filter lets pass.
C6_Fallback ==
    /\ pc # "read_orthologs" =>
           \A i \in DOMAIN table :
               (C6_FallbackRow(table[i]) /\ C6_PassesO2O(table[i]))
                   => C6_Selected(table[i])
    /\ Completed =>
           /\ C6_Log
           /\ \A k \in C6_Tagged :
                  C6_FallbackRow(C6_RowOf(k[2])) /\ C6_PassesO2O(C6_RowOf(k[2]))

\* A run that ends with a fallback gene of two chains logged beside a gene
\* selected through a priority category.
C6_Witness ==
    /\ Completed
    /\ \E i \in DOMAIN table :
           /\ C6_FallbackRow(table[i])
           /\ Cardinality(C6_All(table[i])) = 2
           /\ C6_Selected(table[i])
    /\ \E i \in DOMAIN table :
           ~C6_FallbackRow(table[i]) /\ Has(batch, table[i].gene)
    /\ Len(paralogs_log.lines) = 2

\* The first loop of precompute_regions is over / both loops are.
Truncated ==
    pc \in {"project", "estimate", "fill_buckets", "save_jobs", "write_outputs",
            "done", "crashed"}
Projected ==
    pc \in {"estimate", "fill_buckets", "save_jobs", "write_outputs", "done",
            "crashed"}

\* How often the candidate list C holds chain c, and how often c was kept
\* for the gene (the gene is in the chain's list of chain_to_genes).
C7_Count(C, c) == Cardinality({i \in DOMAIN C : C[i] = c})
C7_Kept(gene, c) ==
    IF Has(chain_to_genes, c)
    THEN Cardinality({i \in DOMAIN Get(chain_to_genes, c) :
                         Get(chain_to_genes, c)[i] = gene})
    ELSE 0
C7_KeptSet(gene) == {c \in KeySet(chain_to_genes) : C7_Kept(gene, c) > 0}
C7_KeptTotal(gene) ==
    Cardinality(UNION {{<<x, i>> : i \in {y \in DOMAIN chain_to_genes[x][2] :
                                               chain_to_genes[x][2][y] = gene}} :
                          x \in DOMAIN chain_to_genes})

C8_Original ==
    Truncated =>
        \A k \in DOMAIN skipped_2 :
            skipped_2[k].reason = ChainLimitReason(chains_limit) =>
                LET g == skipped_2[k].gene
                    C == Get(batch, g)
                IN  /\ skipped_2[k].chains # <<>>
                    /\ Range(skipped_2[k].chains) =
                           {c \in Range(C) : C7_Kept(g, c) < C7_Count(C, c)}

C9_OrthCount(row) == Cardinality({i \in DOMAIN row.ORTH : row.ORTH[i] # Filler})
C9_DiedReading == pc = "died" /\ batch = <<>>

\* C9: with --o2o_only a gene is in genes_chains exactly when it has one
\* orthologous chain; a gene with chains and no or several orthologous ones
\* has the one-to-one record in skipped_1.
C9_OneToOne ==
    (only_o2o /\ pc # "read_orthologs") =>
        \A i \in DOMAIN table :
            /\ ~C9_DiedReading =>
                   (Has(batch, table[i].gene) <=> C9_OrthCount(table[i]) = 1)
            /\ C9_DiedReading => C9_OrthCount(table[i]) # 1
            /\ (/\ ~C9_DiedReading
                /\ C9_OrthCount(table[i]) # 1
                /\ C6_All(table[i]) # {})
                   => \E k \in DOMAIN skipped_1 :
                          skipped_1[k] =
                              SkipRecord(table[i].gene, <<Filler>>, One2OneReason)

\* With --o2o_only: a gene of two orthologous chains and a translocated one
\* skipped, a gene of one orthologous chain selected.
C9_Witness ==
    /\ only_o2o
    /\ pc = "define_buckets"
    /\ \E i \in DOMAIN table :
           /\ C9_OrthCount(table[i]) = 2
           /\ C6_Cat(table[i], "TRANS") # {}
           /\ ~Has(batch, table[i].gene)
    /\ \E i \in DOMAIN table :
           C9_OrthCount(table[i]) = 1 /\ Has(batch, table[i].gene)

\* C10 (as claimed): a run that dies has written no file and exits with a
\* status other than that of a successful run.
C10_Original ==
    pc = "died" =>
        /\ job_files = <<>>
        /\ ~combined.written
        /\ ~skipped_log.written
        /\ ~paralogs_log.written
        /\ exit_code # SuccessRc
        /\ exit_code # 0

\* The positions of the priority list whose category holds chain c of the row.
C11_Matches(row, c) == {i \in DOMAIN fields : c \in C6_Cat(row, fields[i])}

\* The first category of the priority list that holds chain c of the row.
C11_FirstField(row, c) ==
    fields[CHOOSE i \in C11_Matches(row, c) : \A j \in C11_Matches(row, c) : i <= j]

\* The tags chain_gene_field holds for a pair.
C11_Tags(k) == {i \in DOMAIN chain_gene_field : chain_gene_field[i][1] = k}

\* C11 (as claimed): a (chain, gene) pair has at most one tag, and a chain
\* listed for a selected gene in several categories of the priority list is
\* tagged with the first of them in the order of --fields.
C11_Original ==
    pc # "read_orthologs" =>
        /\ \A k \in KeySet(chain_gene_field) : Cardinality(C11_Tags(k)) = 1
        /\ \A i \in DOMAIN table :
               Has(batch, table[i].gene) =>
                   \A c \in C6_All(table[i]) :
                       C11_Matches(table[i], c) # {} =>
                           /\ Has(chain_gene_field, <<c, table[i].gene>>)
                           /\ Get(chain_gene_field, <<c, table[i].gene>>) =
                                  C11_FirstField(table[i], c)

\* The (chain, gene) candidates handed to the converter.
C12_Candidates ==
    UNION {{<<chain_to_genes[i][1], chain_to_genes[i][2][j]>> :
               j \in DOMAIN chain_to_genes[i][2]} : i \in DOMAIN chain_to_genes}

C12_Delta(k) ==
    IF conv[k].tar_len >= conv[k].que_len
    THEN conv[k].tar_len - conv[k].que_len
    ELSE conv[k].que_len - conv[k].tar_len

\* The tag is TRANS or GGLOB, and the relative difference is above 50 or the
\* absolute one above 500000.
C12_Discard(k) ==
    /\ Get(chain_gene_field, k) \in {"TRANS", "GGLOB"}
    /\ \/ C12_Delta(k) > 50 * conv[k].tar_len
       \/ C12_Delta(k) > 500000

C12_HasRecord(k) ==
    \E i \in DOMAIN skipped_2 :
        skipped_2[i] =
            [gene |-> k[2], chains |-> <<k[1]>>,
             reason |-> Reason("too long query locus", <<>>)]

C12_Recorded(k) ==
    /\ Has(regions, k[2])
    /\ Has(Get(regions, k[2]), k[1])

\* C12: a candidate has the "too long query locus" record exactly when its
\* tag is a long-locus category and its locus is above the relative or the
\* absolute threshold, and it is then not in the regions; every other
\* candidate has its que_len in the regions under (gene, chain).
C12_LongLocusOnly ==
    Projected =>
        \A k \in C12_Candidates :
            /\ C12_HasRecord(k) <=> C12_Discard(k)
            /\ C12_Recorded(k) <=> ~C12_Discard(k)
            /\ C12_Recorded(k) => Get(Get(regions, k[2]), k[1]) = conv[k].que_len

\* An orthologous pair far above the relative threshold is recorded, a
\* translocated pair exactly at both thresholds is recorded, and a
\* translocated pair above the absolute threshold is discarded.
C12_Witness ==
    /\ Projected
    /\ \E k \in C12_Candidates :
           /\ Get(chain_gene_field, k) = "ORTH"
           /\ conv[k] = RelLongLocus
           /\ C12_Recorded(k)
    /\ \E k \in C12_Candidates :
           /\ Get(chain_gene_field, k) = "TRANS"
           /\ conv[k] = BoundaryLocus
           /\ C12_Recorded(k)
    /\ \E k \in C12_Candidates :
           /\ Get(chain_gene_field, k) = "TRANS"
           /\ conv[k] = AbsLongLocus
           /\ C12_HasRecord(k)
           /\ ~C12_Recorded(k)

\* read_orthologs selected a gene and the CESAR binary was found: main() has
\* gone on to precompute_regions.
C13_Started == Truncated \/ pc = "truncate"

\* C13 (as claimed): a run with a selected gene and an existing CESAR binary
\* goes on to the writing of the combined file and the logs, whatever
\* --buckets and --jobs_num are: it never stops in an exception that nothing
\* handles, such as a division by zero in save_jobs.
C13_Original == C13_Started => pc # "crashed"

=============================================================================
